---- MODULE Spec2Model ----
(***************************************************************************)
(* SpreadsheetRanker service: the POST /update-fields handler of           *)
(* Service/src/index.js and the GoogleSheetsApi class it calls             *)
(* (api/googleSheetsApi.js).  A handler is modelled at the granularity of  *)
(* its awaits on the remote spreadsheet: one action per gateway call.      *)
(*                                                                         *)
(* JavaScript strings are TLA+ strings; a character is a string of length  *)
(* one (SubSeq(s, i, i)).  The values undefined and null are two reserved  *)
(* strings that no request and no sheet contains.                          *)
(***************************************************************************)
EXTENDS Integers, Sequences, FiniteSets, TLC

undefined == "<undefined>"
null == "<null>"
NaN == "<NaN>"
\* a JSON number where a string is expected (a value without toLowerCase)
five == "<5>"

isString(v) == v \notin {undefined, null, NaN, five}

(***************************************************************************)
(* String primitives of the JavaScript runtime, on the characters the      *)
(* model's requests and sheets are written in.                             *)
(***************************************************************************)
UpperChars == "ABCDEFGHIJKLMNOPQRSTUVWXYZ"
DigitChars == "0123456789"
WhiteSpace == {" ", "\t"}

charAt(s, i) == SubSeq(s, i, i)

IndexIn(alphabet, c) ==
  IF \E i \in 1..Len(alphabet) : charAt(alphabet, i) = c
  THEN CHOOSE i \in 1..Len(alphabet) : charAt(alphabet, i) = c
  ELSE 0

\* the case mappings of the ASCII letters; every other character maps to itself
UpperLetters ==
  {"A", "B", "C", "D", "E", "F", "G", "H", "I", "J", "K", "L", "M",
   "N", "O", "P", "Q", "R", "S", "T", "U", "V", "W", "X", "Y", "Z"}

LowerLetters ==
  {"a", "b", "c", "d", "e", "f", "g", "h", "i", "j", "k", "l", "m",
   "n", "o", "p", "q", "r", "s", "t", "u", "v", "w", "x", "y", "z"}

LowerChar(c) ==
  IF c \notin UpperLetters THEN c ELSE
  CASE c = "A" -> "a" [] c = "B" -> "b" [] c = "C" -> "c" [] c = "D" -> "d"
    [] c = "E" -> "e" [] c = "F" -> "f" [] c = "G" -> "g" [] c = "H" -> "h"
    [] c = "I" -> "i" [] c = "J" -> "j" [] c = "K" -> "k" [] c = "L" -> "l"
    [] c = "M" -> "m" [] c = "N" -> "n" [] c = "O" -> "o" [] c = "P" -> "p"
    [] c = "Q" -> "q" [] c = "R" -> "r" [] c = "S" -> "s" [] c = "T" -> "t"
    [] c = "U" -> "u" [] c = "V" -> "v" [] c = "W" -> "w" [] c = "X" -> "x"
    [] c = "Y" -> "y" [] c = "Z" -> "z"
    [] OTHER -> c

UpperChar(c) ==
  IF c \notin LowerLetters THEN c ELSE
  CASE c = "a" -> "A" [] c = "b" -> "B" [] c = "c" -> "C" [] c = "d" -> "D"
    [] c = "e" -> "E" [] c = "f" -> "F" [] c = "g" -> "G" [] c = "h" -> "H"
    [] c = "i" -> "I" [] c = "j" -> "J" [] c = "k" -> "K" [] c = "l" -> "L"
    [] c = "m" -> "M" [] c = "n" -> "N" [] c = "o" -> "O" [] c = "p" -> "P"
    [] c = "q" -> "Q" [] c = "r" -> "R" [] c = "s" -> "S" [] c = "t" -> "T"
    [] c = "u" -> "U" [] c = "v" -> "V" [] c = "w" -> "W" [] c = "x" -> "X"
    [] c = "y" -> "Y" [] c = "z" -> "Z"
    [] OTHER -> c

RECURSIVE toLowerCase(_)
toLowerCase(s) ==
  IF Len(s) = 0 THEN ""
  ELSE LowerChar(charAt(s, 1)) \o toLowerCase(SubSeq(s, 2, Len(s)))

RECURSIVE trimStart(_)
trimStart(s) ==
  IF Len(s) > 0 /\ charAt(s, 1) \in WhiteSpace THEN trimStart(SubSeq(s, 2, Len(s))) ELSE s

RECURSIVE trimEnd(_)
trimEnd(s) ==
  IF Len(s) > 0 /\ charAt(s, Len(s)) \in WhiteSpace
  THEN trimEnd(SubSeq(s, 1, Len(s) - 1)) ELSE s

trim(s) == trimEnd(trimStart(s))

\* !v for the values a request field or a cell can hold: undefined, null and
\* the empty string are falsy, every other string is truthy.
Falsy(v) == v \in {undefined, null, ""}

\* Mutant: the letter is taken one column to the right.
fromCharCode65_next(i) == charAt(UpperChars, i + 2)

\* String.fromCharCode(65 + i)
fromCharCode65(i) == charAt(UpperChars, i + 1)

\* the value of a decimal digit, -1 for any other character
DigitValue(c) ==
  CASE c = "0" -> 0 [] c = "1" -> 1 [] c = "2" -> 2 [] c = "3" -> 3 [] c = "4" -> 4
    [] c = "5" -> 5 [] c = "6" -> 6 [] c = "7" -> 7 [] c = "8" -> 8 [] c = "9" -> 9
    [] OTHER -> -1

RECURSIVE DigitsValue(_)
DigitsValue(s) ==
  IF Len(s) = 0 THEN 0
  ELSE 10 * DigitsValue(SubSeq(s, 1, Len(s) - 1)) + DigitValue(charAt(s, Len(s)))

AllDigits(s) ==
  /\ Len(s) > 0
  /\ \A i \in 1..Len(s) : DigitValue(charAt(s, i)) >= 0

\* Number(value) on a string: surrounding white space is ignored, the empty
\* string is 0, an optionally signed run of decimal digits is its value, and
\* any other text of the model's cells is NaN.
Number(value) ==
  LET t == trim(value) IN
  IF Len(t) = 0 THEN 0
  ELSE IF AllDigits(t) THEN DigitsValue(t)
  ELSE IF charAt(t, 1) = "-" /\ AllDigits(SubSeq(t, 2, Len(t)))
       THEN 0 - DigitsValue(SubSeq(t, 2, Len(t)))
  ELSE NaN

\* isNaN(Number(value)), decided on the text (NaN is not compared with numbers)
isNaNNumber(value) ==
  LET t == trim(value) IN
  ~(\/ Len(t) = 0
    \/ AllDigits(t)
    \/ (charAt(t, 1) = "-" /\ AllDigits(SubSeq(t, 2, Len(t)))))

RECURSIVE NatToString(_)
NatToString(n) ==
  IF n < 10 THEN charAt(DigitChars, n + 1)
  ELSE NatToString(n \div 10) \o charAt(DigitChars, (n % 10) + 1)

\* (n).toString() for an integer
toString(n) == IF n < 0 THEN "-" \o NatToString(0 - n) ELSE NatToString(n)

RECURSIVE toUpperCase(_)
toUpperCase(s) ==
  IF Len(s) = 0 THEN ""
  ELSE UpperChar(charAt(s, 1)) \o toUpperCase(SubSeq(s, 2, Len(s)))

\* Array.prototype.findIndex, given for each element whether it passes the
\* test: the zero-based index of the first element that passes, -1 when none.
findIndex(passes) ==
  LET passing == { k \in 1..Len(passes) : passes[k] }
  IN IF passing = {} THEN -1
     ELSE (CHOOSE k \in passing : \A j \in passing : k <= j) - 1

\* obj[key] on an object literal: an own property, else a property inherited
\* from Object.prototype (a function or an object, truthy), else undefined.
ObjectPrototypeKeys == {"constructor", "toString", "valueOf", "hasOwnProperty", "__proto__"}
inherited == "<inherited>"
Lookup(obj, key) ==
  IF key \in DOMAIN obj THEN obj[key]
  ELSE IF key \in ObjectPrototypeKeys THEN inherited
  ELSE undefined

(***************************************************************************)
(* Configuration of the service (index.js).                                *)
(***************************************************************************)
FMB_SPREADSHEET == "1hfqaBA_a0jr9iJLKmQ_xZ5kiwP5XL-3eXK9uE_bCx_o"
departmentToSpreadsheetId == [FMB |-> FMB_SPREADSHEET]
fieldMappings == [ft |-> "FUNDA. TRAINING(S)"]
NAME_COLUMN == "USERNAME"

\* a || b
Or(a, b) == IF Falsy(a) THEN b ELSE a

\* const API_TOKEN = process.env.API_TOKEN || 'YOUR_SECURE_API_TOKEN_HERE'
API_TOKEN == "YOUR_SECURE_API_TOKEN_HERE"

(***************************************************************************)
(* verifyApiToken: the token is the Bearer token of the Authorization      *)
(* header or, when there is none, the api_token query parameter.  The      *)
(* outcome is the status the middleware answers with, 0 when it calls      *)
(* next().                                                                 *)
(***************************************************************************)
startsWith(s, prefix) == Len(s) >= Len(prefix) /\ SubSeq(s, 1, Len(prefix)) = prefix

substring(s, start) == SubSeq(s, start + 1, Len(s))

tokenOf(req) ==
  LET authHeader == req.authorization
      tokenFromHeader == IF ~Falsy(authHeader) /\ startsWith(authHeader, "Bearer ")
                         THEN substring(authHeader, 7) ELSE null
      tokenFromQuery == req.api_token
  IN Or(tokenFromHeader, tokenFromQuery)

\* Mutant: any token is accepted, only its absence is refused.
verifyApiToken_anyToken(req) == IF Falsy(tokenOf(req)) THEN 401 ELSE 0

verifyApiToken(req) ==
  IF Falsy(tokenOf(req)) THEN 401
  ELSE IF tokenOf(req) # API_TOKEN THEN 403
  ELSE 0

(***************************************************************************)
(* GoogleSheetsApi.findNameInSheet, after the read of `${sheetName}!A:Z`:  *)
(* `read` is [ok |-> FALSE] when the call threw and [ok |-> TRUE, values]  *)
(* otherwise.  Rows are numbered as the sheet numbers them: values[1] is   *)
(* the header row (JavaScript's values[0]), sheet row 1.                   *)
(***************************************************************************)
nameColumnIndexOf(headerRow, nameColumn) ==
  IF Len(nameColumn) > 1
  THEN LET wanted == toLowerCase(nameColumn)
       IN findIndex([k \in 1..Len(headerRow) |-> toLowerCase(headerRow[k]) = wanted])
  ELSE IndexIn(UpperChars, toUpperCase(nameColumn)) - 1

RowMatches(row, nameColumnIndex, searchName) ==
  /\ Len(row) # 0
  /\ nameColumnIndex >= 0
  /\ Len(row) > nameColumnIndex
  /\ ~Falsy(row[nameColumnIndex + 1])
  /\ trim(toLowerCase(row[nameColumnIndex + 1])) = searchName

\* Mutant: the query name is lowercased but its surrounding blanks are kept.
searchNameOf_noTrim(name) == toLowerCase(name)

\* const searchName = name.toLowerCase().trim()
searchNameOf(name) == trim(toLowerCase(name))

\* Mutant: the scan keeps going and the last matching row wins.
firstMatchingRow_last(values, nameColumnIndex, searchName) ==
  CHOOSE r \in 2..Len(values) :
    /\ RowMatches(values[r], nameColumnIndex, searchName)
    /\ \A q \in (r + 1)..Len(values) : ~RowMatches(values[q], nameColumnIndex, searchName)

\* for (let i = 1; i < values.length; i++): the sheet row of the first match
firstMatchingRow(values, nameColumnIndex, searchName) ==
  CHOOSE r \in 2..Len(values) :
    /\ RowMatches(values[r], nameColumnIndex, searchName)
    /\ \A q \in 2..(r - 1) : ~RowMatches(values[q], nameColumnIndex, searchName)

findNameInSheet(read, name, nameColumn) ==
  IF ~read.ok THEN [found |-> FALSE]
  ELSE
    LET searchName == searchNameOf(name)
        values == read.values
    IN
    IF Len(values) = 0 THEN [found |-> FALSE, allData |-> <<>>]
    ELSE
      LET headerRow == values[1]
          nameColumnIndex == nameColumnIndexOf(headerRow, nameColumn)
      IN
      IF Len(nameColumn) > 1 /\ nameColumnIndex = -1
      THEN [found |-> FALSE, allData |-> values]
      ELSE IF \E r \in 2..Len(values) : RowMatches(values[r], nameColumnIndex, searchName)
      THEN LET r == firstMatchingRow(values, nameColumnIndex, searchName)
           IN [found |-> TRUE, row |-> r, rowData |-> values[r], allData |-> values]
      ELSE [found |-> FALSE, allData |-> values]

(***************************************************************************)
(* One iteration of the sheet loop of findAndIncrementColumnValueAcross-   *)
(* Sheets, after findNameInSheet returned: either `continue` (kind "next") *)
(* or the write it is about to issue (kind "write").                       *)
(***************************************************************************)
fieldColumnIndexOf(headerRow, columnName) ==
  LET wanted == trim(toLowerCase(columnName))
  IN findIndex([k \in 1..Len(headerRow) |->
                  /\ ~Falsy(headerRow[k])
                  /\ trim(toLowerCase(headerRow[k])) = wanted])

cellValueOf(userRow, columnIndex) ==
  IF columnIndex < Len(userRow) THEN userRow[columnIndex + 1] ELSE null

\* Mutant: the cell's text is ignored and the counter restarts from zero.
currentValueOf_zero(value) == 0

currentValueOf(value) ==
  IF value # null /\ value # undefined THEN Number(value) ELSE 0

\* Mutant: a sheet where the name matches but the field column is missing
\* ends the search with a failure.
sheetIteration_stopOnColumn(userResult, sheetName, columnName, incrementBy) ==
  IF ~userResult.found THEN [kind |-> "next", why |-> "name", value |-> ""]
  ELSE
    LET headerRow == userResult.allData[1]
        columnIndex == fieldColumnIndexOf(headerRow, columnName)
    IN
    IF ~isString(columnName) /\ \E k \in 1..Len(headerRow) : ~Falsy(headerRow[k])
    THEN [kind |-> "throw", why |-> "TypeError", value |-> "columnName.toLowerCase is not a function"]
    ELSE IF columnIndex = -1 THEN [kind |-> "throw", why |-> "column", value |-> columnName]
    ELSE
      LET value == cellValueOf(userResult.rowData, columnIndex)
          currentValue == currentValueOf(value)
      IN
      IF value # null /\ value # undefined /\ isNaNNumber(value) THEN [kind |-> "next", why |-> "NaN", value |-> value]
      ELSE
        LET newValue == currentValue + incrementBy
            columnLetter == fromCharCode65(columnIndex)
        IN [kind |-> "write", why |-> "update", value |-> toString(currentValue),
            cellAddress |-> sheetName \o "!" \o columnLetter \o toString(userResult.row),
            text |-> toString(newValue),
            result |-> [success |-> TRUE,
                        previousValue |-> currentValue,
                        newValue |-> newValue,
                        row |-> userResult.row,
                        column |-> columnIndex + 1,
                        columnLetter |-> columnLetter,
                        sheetName |-> sheetName]]

sheetIteration(userResult, sheetName, columnName, incrementBy) ==
  IF ~userResult.found THEN [kind |-> "next", why |-> "name", value |-> ""]
  ELSE
    LET headerRow == userResult.allData[1]
        columnIndex == fieldColumnIndexOf(headerRow, columnName)
    IN
    IF ~isString(columnName) /\ \E k \in 1..Len(headerRow) : ~Falsy(headerRow[k])
    THEN [kind |-> "throw", why |-> "TypeError", value |-> "columnName.toLowerCase is not a function"]
    ELSE IF columnIndex = -1 THEN [kind |-> "next", why |-> "column", value |-> columnName]
    ELSE
      LET value == cellValueOf(userResult.rowData, columnIndex)
          currentValue == currentValueOf(value)
      IN
      IF value # null /\ value # undefined /\ isNaNNumber(value) THEN [kind |-> "next", why |-> "NaN", value |-> value]
      ELSE
        LET newValue == currentValue + incrementBy
            columnLetter == fromCharCode65(columnIndex)
        IN [kind |-> "write", why |-> "update", value |-> toString(currentValue),
            cellAddress |-> sheetName \o "!" \o columnLetter \o toString(userResult.row),
            text |-> toString(newValue),
            result |-> [success |-> TRUE,
                        previousValue |-> currentValue,
                        newValue |-> newValue,
                        row |-> userResult.row,
                        column |-> columnIndex + 1,
                        columnLetter |-> columnLetter,
                        sheetName |-> sheetName]]

\* update.increment !== undefined ? update.increment : 1 (an absent key reads undefined)
incrementOf(update) == IF "increment" \in DOMAIN update THEN update.increment ELSE 1

\* fieldMappings[field] || field
mappedFieldNameOf(field) == Or(Lookup(fieldMappings, field), field)

\* results.push({...incrementResult, name, department, field, increment})
resultOf(incrementResult, update) ==
  [name |-> update.name,
   department |-> update.department,
   field |-> mappedFieldNameOf(update.field),
   increment |-> incrementOf(update)] @@ incrementResult

missingFieldsResult(update, fieldName) ==
  [success |-> FALSE,
   name |-> Or(update.name, "unknown"),
   department |-> Or(update.department, "unknown"),
   field |-> Or(fieldName, "unknown"),
   message |-> <<"Missing required fields (name, department, or field)">>]

unknownDepartmentResult(update, fieldName) ==
  [success |-> FALSE,
   name |-> update.name,
   department |-> update.department,
   field |-> fieldName,
   message |-> <<"Unknown department: ", update.department>>]

\* The failure results of findAndIncrementColumnValueAcrossSheets.  A message
\* is the sequence of the literal and interpolated parts of its template.
noSheetsResult == [success |-> FALSE, message |-> <<"No sheets found in spreadsheet">>]

notFoundResult(name) ==
  [success |-> FALSE,
   message |-> <<"User \"", name, "\" not found in any sheet in the spreadsheet">>]

\* catch (error) { return { success: false, error: error.message } }
caughtResult(errorMessage) == [success |-> FALSE, error |-> errorMessage]

updateFailedResult(columnName, name, sheetName) ==
  [success |-> FALSE,
   message |-> <<"Failed to update ", columnName, " for user ", name, " in sheet ", sheetName>>]

(***************************************************************************)
(* The remote spreadsheet: the sheets of the workbook in the order the     *)
(* listing returns them, each with the grid a read of A:Z returns.  A      *)
(* single-cell write addressed <title>!<letter><row> replaces that cell's  *)
(* text, extending a short row with empty cells.                           *)
(***************************************************************************)
sheetTitles(book) == [k \in 1..Len(book) |-> book[k].title]

valuesOf(book, sheetName) ==
  IF \E k \in 1..Len(book) : book[k].title = sheetName
  THEN book[CHOOSE k \in 1..Len(book) : book[k].title = sheetName].values
  ELSE <<>>

parseA1(cellAddress) ==
  LET bang == CHOOSE k \in 1..Len(cellAddress) : charAt(cellAddress, k) = "!"
  IN [title |-> SubSeq(cellAddress, 1, bang - 1),
      column |-> IndexIn(UpperChars, charAt(cellAddress, bang + 1)),
      row |-> DigitsValue(SubSeq(cellAddress, bang + 2, Len(cellAddress)))]

setCell(row, column, text) ==
  [c \in 1..(IF Len(row) > column THEN Len(row) ELSE column) |->
     IF c = column THEN text ELSE IF c <= Len(row) THEN row[c] ELSE ""]

setGridCell(values, row, column, text) ==
  [r \in 1..(IF Len(values) > row THEN Len(values) ELSE row) |->
     IF r = row THEN setCell(IF r <= Len(values) THEN values[r] ELSE <<>>, column, text)
     ELSE IF r <= Len(values) THEN values[r] ELSE <<>>]

\* Mutant: the write replaces the cell at that position in every sheet.
applyUpdate_everySheet(book, cellAddress, text) ==
  LET a == parseA1(cellAddress) IN
  [k \in 1..Len(book) |->
     [book[k] EXCEPT !.values = IF a.row <= Len(@) THEN setGridCell(@, a.row, a.column, text) ELSE @]]

applyUpdate(book, cellAddress, text) ==
  LET a == parseA1(cellAddress) IN
  [k \in 1..Len(book) |->
     IF book[k].title = a.title
     THEN [book[k] EXCEPT !.values = setGridCell(@, a.row, a.column, text)]
     ELSE book[k]]

(***************************************************************************)
(* Bounds and input domains.                                               *)
(***************************************************************************)
MaxBatch == 2
MaxRows == 2
\* how many calls on the remote API may fail in one run
MaxFaults == 1

Handlers == {1, 2}

FIELD_HEADER == "FUNDA. TRAINING(S)"

SeqsUpTo(S, n) == UNION { [1..k -> S] : k \in 0..n }

Sheet(title, values) == [title |-> title, values |-> values]

\* Scenario "locate": one sheet, any header and up to MaxRows data rows, and
\* one well-formed update.
Headers ==
  { <<"Username", " Funda. training(s) ">>,
    <<"USERNAME", "Rank">>,
    <<FIELD_HEADER, "USERNAME">>,
    <<" Username ", FIELD_HEADER, FIELD_HEADER>> }

DataRows ==
  { <<"bob", "7">>, <<" BOB", "N/A">>, <<"Bob ">>, <<"amy", "">>, <<"7", "bob">>, <<>> }

Grids == { <<h>> \o rows : h \in Headers, rows \in SeqsUpTo(DataRows, MaxRows) }

LocateWorkbooks == { << Sheet("A", g) >> : g \in Grids }

LocateRequests ==
  { [name |-> n, department |-> "FMB", field |-> "ft", increment |-> IF n = "amy" THEN 5 ELSE 3] :
      n \in {"bob", "BOB ", "amy"} }

\* Scenario "batch": up to MaxBatch updates, well-formed or not, on a workbook
\* of at most two sheets.
FIELD == <<"Username", " Funda. training(s) ">>
RANK == <<"USERNAME", "Rank">>

BatchWorkbooks ==
  { <<>>,
    << Sheet("A", << FIELD, <<"bob", "7">>, <<"amy", "">> >>) >>,
    << Sheet("A", << FIELD, <<" BOB", "N/A">> >>) >>,
    << Sheet("A", << FIELD, <<" BOB", "N/A">> >>), Sheet("B", << FIELD, <<"bob", "7">> >>) >>,
    << Sheet("A", << FIELD, <<"amy">> >>), Sheet("B", << FIELD, <<"bob", "7">> >>) >>,
    << Sheet("A", << RANK, <<"bob", "7">> >>), Sheet("B", << FIELD, <<"bob", "7">> >>) >>,
    << Sheet("A", << FIELD, <<"bob", "7">> >>), Sheet("B", << FIELD, <<"bob", "7">> >>) >>,
    << Sheet("A", <<>>), Sheet("B", << FIELD, <<"bob", "7">>, <<"amy", "">> >>) >> }

Requests ==
  { [name |-> "bob", department |-> "FMB", field |-> "ft", increment |-> 3],
    [name |-> "BOB ", department |-> "FMB", field |-> "ft"],
    [name |-> "amy", department |-> "FMB", field |-> "funda. training(s)", increment |-> 5],
    [name |-> "", department |-> "FMB", field |-> "ft"] }

Batches == SeqsUpTo(Requests, MaxBatch)

\* Scenario "reject": one update with a field missing or a department that is
\* not a key of the mapping, on any workbook of the batch scenario.
RejectRequests ==
  { r \in [name : {"bob", "", undefined},
           department : {"FMB", "", undefined, "XYZ", "fmb", "constructor", "toString"},
           field : {"ft", "", undefined}] :
      ~(r.name = "bob" /\ r.department = "FMB" /\ r.field = "ft") }

\* Scenario "field": one update whose field is a column letter, a header
\* written differently, a header of another column, or a JSON number.
FieldRequests ==
  { [name |-> "bob", department |-> "FMB", field |-> f, increment |-> 3] :
      f \in {"B", " FT", "Funda. Training(s)  ", "Rank", five} }

\* an HTTP request to the service
Request(method, path, authorization, api_token, batch) ==
  [method |-> method, path |-> path, authorization |-> authorization,
   api_token |-> api_token, payloads |-> batch]

\* POST /update-fields with the configured token
Post(batch) == Request("POST", "/update-fields", "Bearer " \o API_TOKEN, undefined, batch)

\* a payloads element that is JSON null: it has no property, and reading one
\* throws a TypeError
nullPayload == <<>>

isNullPayload(update) == DOMAIN update = {}

\* Array.isArray(req.body.payloads); a body without payloads has no such field
isArray(body) == "payloads" \in DOMAIN body

\* Scenario "malformed": a body without payloads, an empty batch, and batches
\* with a null element.
MalformedRequests ==
  { [method |-> "POST", path |-> "/update-fields", authorization |-> "Bearer " \o API_TOKEN,
     api_token |-> undefined] }
  \cup { Post(b) : b \in { <<>>,
                            << nullPayload >>,
                            << [name |-> "bob", department |-> "FMB", field |-> "ft", increment |-> 3],
                               nullPayload >> } }

\* Scenario "http": any route, with and without credentials.
HttpRequests ==
  { Request(route[1], route[2], authorization, api_token,
            << [name |-> "bob", department |-> "FMB", field |-> "ft", increment |-> 3] >>) :
      route \in { <<"GET", "/">>, <<"POST", "/update-fields">>, <<"GET", "/update-fields">> },
      authorization \in { undefined, "Bearer " \o API_TOKEN, "Bearer guess", API_TOKEN, "Bearer " },
      api_token \in { undefined, API_TOKEN, "guess" } }

(***************************************************************************)
(* State.                                                                  *)
(***************************************************************************)
VARIABLES
  workbook,    \* the remote spreadsheet of department FMB
  calls,       \* every call made on this.sheets.spreadsheets, in order
  inbox,       \* per handler: the HTTP request on its way, if any
  pc,          \* per handler: where the handler is
  payloads,    \* per handler: req.body.payloads
  fieldName,   \* per handler: const fieldName (of the first payload)
  results,     \* per handler: const results = []
  i,           \* per handler: index in payloads of the current update
  local,       \* per handler: the locals of the current update's call
  response,    \* per handler: the HTTP response sent, if any
  console,     \* the console.log lines of the sheet loop, in order
  bookAt,      \* history, per handler: the workbook as each update began
  faults,      \* how many calls on the remote API have failed
  discord,     \* every call of sendToDiscord, in order
  req,         \* per handler: the request it received
  now,         \* game server: os.time()
  cooldowns,   \* game server: local cooldowns = {}, UserId -> time of last use
  threads,     \* game server: the !activity commands in progress, oldest first
  sent,        \* game server: every HttpService:RequestAsync call, in order
  printed,     \* game server: the last line a command printed
  chats        \* game server: how many !activity commands were chatted

\* the state of the game server script
game == <<now, cooldowns, threads, sent, printed, chats>>

vars == <<workbook, calls, inbox, pc, payloads, fieldName, results, i, local, response,
          console, bookAt, faults, discord, req, now, cooldowns, threads, sent, printed, chats>>

noLocal == [spreadsheetId |-> undefined]
noResponse == [status |-> 0]
noRequest == [method |-> undefined]

\* Scenario "http" and "malformed": the requests, on a one-sheet workbook.
HttpScenario ==
  /\ workbook = << Sheet("A", << FIELD, <<"bob", "7">> >>) >>
  /\ inbox \in { [h \in Handlers |-> IF h = 1 THEN <<q>> ELSE <<>>] :
                   q \in HttpRequests \cup MalformedRequests }

\* Scenario "concurrent": two clients post a batch each at the same time, on
\* a one-sheet workbook; the service runs one handler for each.
ConcurrentWorkbook == << Sheet("A", << FIELD, <<"bob", "7">>, <<"amy", "">> >>) >>

ConcurrentBatches ==
  { << [name |-> "bob", department |-> "FMB", field |-> "ft", increment |-> 3] >>,
    << [name |-> "BOB ", department |-> "FMB", field |-> "ft"] >>,
    << [name |-> "amy", department |-> "FMB", field |-> "funda. training(s)", increment |-> 5] >> }

ConcurrentScenario ==
  /\ workbook = ConcurrentWorkbook
  /\ inbox \in [Handlers -> { << Post(b) >> : b \in ConcurrentBatches }]

\* the service has started and no request has arrived
Idle ==
  /\ calls = <<>>
  /\ pc = [h \in Handlers |-> "idle"]
  /\ payloads = [h \in Handlers |-> <<>>]
  /\ fieldName = [h \in Handlers |-> undefined]
  /\ results = [h \in Handlers |-> <<>>]
  /\ i = [h \in Handlers |-> 0]
  /\ local = [h \in Handlers |-> noLocal]
  /\ response = [h \in Handlers |-> noResponse]
  /\ console = <<>>
  /\ bookAt = [h \in Handlers |-> <<>>]
  /\ faults = 0
  /\ discord = <<>>
  /\ req = [h \in Handlers |-> noRequest]
  /\ now = 0
  /\ cooldowns = <<>>
  /\ threads = <<>>
  /\ sent = <<>>
  /\ printed = [userId |-> 0, line |-> "", isAdmin |-> FALSE]
  /\ chats = 0

\* one request is sent to the service; the second handler stays idle
Init ==
  /\ \/ /\ workbook \in LocateWorkbooks
        /\ inbox \in { [h \in Handlers |-> IF h = 1 THEN << Post(<<r>>) >> ELSE <<>>] : r \in LocateRequests }
     \/ /\ workbook \in BatchWorkbooks
        /\ inbox \in { [h \in Handlers |-> IF h = 1 THEN << Post(b) >> ELSE <<>>] : b \in Batches }
     \/ /\ workbook \in BatchWorkbooks
        /\ inbox \in { [h \in Handlers |-> IF h = 1 THEN << Post(<<r>>) >> ELSE <<>>] : r \in RejectRequests }
     \/ /\ workbook \in BatchWorkbooks
        /\ inbox \in { [h \in Handlers |-> IF h = 1 THEN << Post(<<r>>) >> ELSE <<>>] : r \in FieldRequests }
     \/ HttpScenario
  /\ Idle

update(h) == payloads[h][i[h]]

\* Mutant: a failed update is skipped without a result being pushed.
PushAndContinue_dropFailed(h, r) ==
  /\ results' = [results EXCEPT ![h] = IF r.success THEN Append(@, r) ELSE @]
  /\ i' = [i EXCEPT ![h] = @ + 1]
  /\ local' = [local EXCEPT ![h] = noLocal]
  /\ pc' = [pc EXCEPT ![h] = "loop"]

\* Mutant: after a failed update the loop starts over from the first payload.
PushAndContinue_restart(h, r) ==
  /\ results' = [results EXCEPT ![h] = Append(@, r)]
  /\ i' = [i EXCEPT ![h] = IF r.success THEN @ + 1 ELSE 1]
  /\ local' = [local EXCEPT ![h] = noLocal]
  /\ pc' = [pc EXCEPT ![h] = "loop"]

\* results.push(r); continue  (or the end of the loop body)
PushAndContinue(h, r) ==
  /\ results' = [results EXCEPT ![h] = Append(@, r)]
  /\ i' = [i EXCEPT ![h] = @ + 1]
  /\ local' = [local EXCEPT ![h] = noLocal]
  /\ pc' = [pc EXCEPT ![h] = "loop"]

\* a call on the remote API, as the log records it
Call(h, op, target, ok) ==
  [handler |-> h, update |-> i[h], op |-> op, target |-> target, ok |-> ok]

\* A call on the remote API succeeds, or throws (network, quota, permission).
Outcomes == IF faults < MaxFaults THEN BOOLEAN ELSE {TRUE}

Fault(ok) == faults' = IF ok THEN faults ELSE faults + 1

\* a console.log line of the sheet loop
Log(h, line, sheetName, value) ==
  [handler |-> h, update |-> i[h], line |-> line, sheetName |-> sheetName, value |-> value]

\* a call of sendToDiscord, as the log records it
Notice(h, title) == [handler |-> h, title |-> title]

Answer(h, status, body) ==
  /\ response' = [response EXCEPT ![h] = [status |-> status, body |-> body]]
  /\ pc' = [pc EXCEPT ![h] = "done"]

\* What the service does with an exception thrown in the try block of
\* app.post('/update-fields').  The catch block evaluates `departmentName`,
\* a const of the try block that is not in scope there: a ReferenceError is
\* thrown before sendToDiscord or res.status(500) is reached, and the promise
\* of the async handler rejects.  With Express 4 nobody handles the rejection
\* and no response is ever sent; with Express 5 the router passes it to the
\* default error handler, which answers 500 with its own body.
Rejected(h) ==
  \/ /\ pc' = [pc EXCEPT ![h] = "rejected"]
     /\ UNCHANGED response
  \/ Answer(h, 500, [message |-> <<"ReferenceError: departmentName is not defined">>])

(***************************************************************************)
(* A request arrives.  app.get('/') is registered before                   *)
(* app.use(verifyApiToken), so GET / is answered without a token; every    *)
(* other request passes the middleware first.  app.post('/update-fields')  *)
(* then validates the body, reports the command to Discord and enters the  *)
(* loop; any other route is answered 404.                                  *)
(***************************************************************************)
Receive(h) ==
  /\ pc[h] = "idle"
  /\ Len(inbox[h]) > 0
  /\ LET request == Head(inbox[h])
         batch == IF isArray(request) THEN request.payloads ELSE <<>>
     IN
       /\ inbox' = [inbox EXCEPT ![h] = Tail(@)]
       /\ req' = [req EXCEPT ![h] = request]
       /\ IF request.method = "GET" /\ request.path = "/"
          THEN /\ Answer(h, 200, [message |-> <<"SpreadsheetRanker API is running">>])
               /\ UNCHANGED <<payloads, fieldName, i, discord>>
          ELSE IF verifyApiToken(request) = 401
          THEN /\ Answer(h, 401,
                         [success |-> FALSE,
                          message |-> <<"API token is required. Provide it as a Bearer token in Authorization header or as api_token query parameter.">>])
               /\ UNCHANGED <<payloads, fieldName, i, discord>>
          ELSE IF verifyApiToken(request) = 403
          THEN /\ Answer(h, 403, [success |-> FALSE, message |-> <<"Invalid API token">>])
               /\ UNCHANGED <<payloads, fieldName, i, discord>>
          ELSE IF ~(request.method = "POST" /\ request.path = "/update-fields")
          THEN /\ Answer(h, 404, [message |-> <<"Cannot ", request.method, " ", request.path>>])
               /\ UNCHANGED <<payloads, fieldName, i, discord>>
          ELSE IF ~isArray(request) \/ Len(batch) = 0
          THEN /\ Answer(h, 400,
                         [success |-> FALSE,
                          message |-> <<"Request body must be a non-empty array of update objects">>])
               /\ payloads' = [payloads EXCEPT ![h] = batch]
               /\ UNCHANGED <<fieldName, i, discord>>
          ELSE IF \E k \in 1..Len(batch) : isNullPayload(batch[k])
          THEN /\ Rejected(h)
               /\ UNCHANGED <<payloads, fieldName, i, discord>>
          ELSE /\ payloads' = [payloads EXCEPT ![h] = batch]
               /\ fieldName' = [fieldName EXCEPT ![h] =
                                  Or(Or(Lookup(fieldMappings, batch[1].field), batch[1].field), "Unknown")]
               /\ discord' = Append(discord, Notice(h, "Activity Command Used"))
               /\ i' = [i EXCEPT ![h] = 1]
               /\ pc' = [pc EXCEPT ![h] = "loop"]
               /\ UNCHANGED response
  /\ UNCHANGED <<workbook, calls, results, local, console, bookAt, faults, game>>

\* for (const update of req.body.payloads): the checks made before any call
Validate(h) ==
  /\ pc[h] = "loop"
  /\ i[h] <= Len(payloads[h])
  /\ bookAt' = [bookAt EXCEPT ![h] = Append(@, workbook)]
  /\ IF Falsy(update(h).name) \/ Falsy(update(h).department) \/ Falsy(update(h).field)
     THEN PushAndContinue(h, missingFieldsResult(update(h), fieldName[h]))
     ELSE IF Falsy(Lookup(departmentToSpreadsheetId, update(h).department))
     THEN PushAndContinue(h, unknownDepartmentResult(update(h), fieldName[h]))
     ELSE /\ local' = [local EXCEPT ![h] =
                         [spreadsheetId |-> Lookup(departmentToSpreadsheetId, update(h).department),
                          name |-> update(h).name,
                          columnName |-> mappedFieldNameOf(update(h).field),
                          incrementBy |-> incrementOf(update(h)),
                          nameColumn |-> NAME_COLUMN]]
          /\ pc' = [pc EXCEPT ![h] = "getSheetNames"]
          /\ UNCHANGED <<results, i>>
  /\ UNCHANGED <<workbook, calls, inbox, payloads, fieldName, response, console, faults, discord, req, game>>

\* const sheetNames = await this.getSheetNames(spreadsheetId)
GetSheetNames(h) ==
  /\ pc[h] = "getSheetNames"
  /\ \E ok \in IF local[h].spreadsheetId = FMB_SPREADSHEET THEN Outcomes ELSE {FALSE} :
       LET sheetNames == IF ok THEN sheetTitles(workbook) ELSE <<>>
       IN /\ Fault(ok \/ local[h].spreadsheetId # FMB_SPREADSHEET)
          /\ calls' = Append(calls, Call(h, "spreadsheets.get", local[h].spreadsheetId, ok))
          /\ IF Len(sheetNames) = 0
             THEN PushAndContinue(h, resultOf(noSheetsResult, update(h)))
             ELSE /\ local' = [local EXCEPT ![h] = @ @@ [sheetNames |-> sheetNames, s |-> 1]]
                  /\ pc' = [pc EXCEPT ![h] = "findNameInSheet"]
                  /\ UNCHANGED <<results, i>>
  /\ UNCHANGED <<workbook, inbox, payloads, fieldName, response, console, bookAt, discord, req, game>>

\* Mutant: the sheet is read once per batch and reused by the later updates.
readSheet_cached(h, sheetName, ok) ==
  IF ok THEN [ok |-> TRUE, values |-> valuesOf(bookAt[h][1], sheetName)] ELSE [ok |-> FALSE]

\* await this.sheets.spreadsheets.values.get({ spreadsheetId, range }): the
\* sheet as it is now, or the call throws
readSheet(h, sheetName, ok) ==
  IF ok THEN [ok |-> TRUE, values |-> valuesOf(workbook, sheetName)] ELSE [ok |-> FALSE]

\* one iteration of for (const sheetName of sheetNames), up to its write
FindInSheet(h) ==
  /\ pc[h] = "findNameInSheet"
  /\ LET sheetName == local[h].sheetNames[local[h].s] IN
     \E ok \in Outcomes :
       LET read == readSheet(h, sheetName, ok)
           userResult == findNameInSheet(read, local[h].name, local[h].nameColumn)
           step == sheetIteration(userResult, sheetName, local[h].columnName, local[h].incrementBy)
       IN /\ Fault(ok)
          /\ calls' = Append(calls, Call(h, "values.get", sheetName \o "!A:Z", ok))
          /\ console' = IF step.kind = "next" /\ step.why = "name" THEN console
                        ELSE Append(console, Log(h, step.why, sheetName, step.value))
          /\ IF step.kind = "write"
             THEN /\ local' = [local EXCEPT ![h] = [write |-> step] @@ @]
                  /\ pc' = [pc EXCEPT ![h] = "updateSheetData"]
                  /\ UNCHANGED <<results, i>>
             ELSE IF step.kind = "throw"
             THEN PushAndContinue(h, resultOf(caughtResult(step.value), update(h)))
             ELSE IF local[h].s < Len(local[h].sheetNames)
             THEN /\ local' = [local EXCEPT ![h].s = @ + 1]
                  /\ UNCHANGED <<pc, results, i>>
             ELSE PushAndContinue(h, resultOf(notFoundResult(local[h].name), update(h)))
  /\ UNCHANGED <<workbook, inbox, payloads, fieldName, response, bookAt, discord, req, game>>

\* Mutant: the write takes effect although the call reports a failure.
writeEffect_always(book, cellAddress, text, ok) == applyUpdate(book, cellAddress, text)

\* await this.sheets.spreadsheets.values.update(...): the cell is replaced, or
\* the call throws and the workbook is as before
writeEffect(book, cellAddress, text, ok) ==
  IF ok THEN applyUpdate(book, cellAddress, text) ELSE book

\* const updateSuccess = await this.updateSheetData(spreadsheetId, cellAddress, ...)
UpdateSheetData(h) ==
  /\ pc[h] = "updateSheetData"
  /\ LET w == local[h].write IN
     \E ok \in Outcomes :
       /\ Fault(ok)
       /\ calls' = Append(calls, Call(h, "values.update", w.cellAddress, ok))
       /\ workbook' = writeEffect(workbook, w.cellAddress, w.text, ok)
       /\ IF ok
          THEN PushAndContinue(h, resultOf(w.result, update(h)))
          ELSE PushAndContinue(h, resultOf(updateFailedResult(local[h].columnName, local[h].name,
                                                                local[h].sheetNames[local[h].s]),
                                              update(h)))
  /\ UNCHANGED <<inbox, payloads, fieldName, response, console, bookAt, discord, req, game>>

\* after the loop: the failure notice when no update succeeded, then
\* return res.json({ success: true, results })
Respond(h) ==
  /\ pc[h] = "loop"
  /\ i[h] > Len(payloads[h])
  /\ discord' = IF \E k \in 1..Len(results[h]) : results[h][k].success THEN discord
                ELSE Append(discord, Notice(h, "Activity Command Failed"))
  /\ Answer(h, 200, [success |-> TRUE, results |-> results[h]])
  /\ UNCHANGED <<workbook, calls, inbox, payloads, fieldName, results, i, local, console, bookAt, faults, req, game>>

Next ==
  \E h \in Handlers :
    \/ Receive(h)
    \/ Validate(h)
    \/ GetSheetNames(h)
    \/ FindInSheet(h)
    \/ UpdateSheetData(h)
    \/ Respond(h)

Spec == Init /\ [][Next]_vars

\* Two batches handled at the same time: the awaits of the two handlers
\* interleave in any order.
InitConcurrent == ConcurrentScenario /\ Idle

ConcurrentSpec == InitConcurrent /\ [][Next]_vars

\* The requests of the "http" and "malformed" scenarios, under fair
\* scheduling: every await of a handler settles and the event loop resumes the
\* handler.
InitHttp == HttpScenario /\ Idle

HttpSpec ==
  /\ InitHttp
  /\ [][Next]_vars
  /\ \A h \in Handlers :
       WF_vars(Receive(h) \/ Validate(h) \/ GetSheetNames(h) \/ FindInSheet(h)
               \/ UpdateSheetData(h) \/ Respond(h))

(***************************************************************************)
(* The game server script Roblox/ServerScriptService/SpreadsheetRanker.lua: *)
(* the !activity chat command.  A command runs in its own thread; the      *)
(* thread yields in GroupService:GetGroupsAsync and in                     *)
(* HttpService:RequestAsync, and runs without interruption in between.     *)
(***************************************************************************)
COOLDOWN_TIME == 60 * 30
ADMIN_RANK == 254
MOD_RANK == 100

\* if player.UserId == 158167294 then return true, true end
OWNER_ID == 158167294

MaxCommands == 3
MaxTime == 3600

UserIds == {1001, OWNER_ID}

\* the words of a chat message (string.gmatch(message, "%S+"))
Messages ==
  { <<"!activity", "FMB", "ft", "3", "all">>,
    <<"!Activity", "fmb", "ft", "0", "all">> }

\* what pcall(GetGroupsAsync) gives: a failure, or the player's rank in the
\* group (0 when the player is not a member)
GroupLookups ==
  { [ok |-> FALSE, rank |-> 0] }
  \cup { [ok |-> TRUE, rank |-> r] : r \in {0, MOD_RANK - 1, MOD_RANK, ADMIN_RANK - 1, ADMIN_RANK} }

\* seconds the clock advances by between two events
Delays == {COOLDOWN_TIME - 1, COOLDOWN_TIME}

teamCodes == {"fmb", "baf"}

\* canUseCommand(player), given the group lookup: canUse, isAdmin
canUseCommand(userId, lookup) ==
  IF userId = OWNER_ID THEN <<TRUE, TRUE>>
  ELSE IF lookup.ok /\ lookup.rank > 0
  THEN <<lookup.rank >= MOD_RANK, lookup.rank >= ADMIN_RANK>>
  ELSE <<FALSE, FALSE>>

\* Mutant: the first use of the command is not recorded.
checkCooldown_firstFree(table, userId, currentTime) ==
  IF userId \notin DOMAIN table
  THEN [passed |-> TRUE, cooldowns |-> table]
  ELSE IF currentTime - table[userId] < COOLDOWN_TIME
  THEN [passed |-> FALSE, cooldowns |-> table]
  ELSE [passed |-> TRUE, cooldowns |-> [table EXCEPT ![userId] = currentTime]]

\* checkCooldown(player): whether the command may go on, and the table after
checkCooldown(table, userId, currentTime) ==
  IF userId \notin DOMAIN table
  THEN [passed |-> TRUE, cooldowns |-> (userId :> currentTime) @@ table]
  ELSE IF currentTime - table[userId] < COOLDOWN_TIME
  THEN [passed |-> FALSE, cooldowns |-> table]
  ELSE [passed |-> TRUE, cooldowns |-> [table EXCEPT ![userId] = currentTime]]

\* tonumber(s) > 0 for a word of the message
positiveNumber(word) == AllDigits(word) /\ DigitsValue(word) > 0

\* the checks of processActivityCommand between the cooldown and the request:
\* five words, a known team, a positive increment, a target player found
wellFormedCommand(args, found) ==
  /\ Len(args) >= 5
  /\ toLowerCase(args[2]) \in teamCodes
  /\ positiveNumber(args[4])
  /\ found

\* string.sub(message, 1, 9):lower() == "!activity"
isActivityCommand(args) == Len(args) > 0 /\ toLowerCase(SubSeq(args[1], 1, 9)) = "!activity"

\* a command's thread between GetGroupsAsync and its end: the player, the
\* words of the message until they are parsed, where the thread is, and the
\* rights canUseCommand gave it
Thread(userId, args) ==
  [userId |-> userId, args |-> args, at |-> "GetGroupsAsync", isAdmin |-> FALSE]

\* the sequence without its k-th element
Without(seq, k) == SubSeq(seq, 1, k - 1) \o SubSeq(seq, k + 1, Len(seq))

\* a print(...) of processActivityCommand: whose command, which line, and
\* whether canUseCommand found the player an admin
Line(userId, line, isAdmin) == [userId |-> userId, line |-> line, isAdmin |-> isAdmin]

\* processActivityCommand from the return of canUseCommand up to the call of
\* RequestAsync or to its return; `others` are the other threads in progress
Process(others, userId, args, rights) ==
  LET canUse == rights[1]
      isAdmin == rights[2]
      cooldown == checkCooldown(cooldowns, userId, now)
  IN IF ~canUse
     THEN /\ printed' = Line(userId, "You don't have permission to use this command.", isAdmin)
          /\ threads' = others
          /\ UNCHANGED <<cooldowns, sent>>
     ELSE IF ~isAdmin /\ ~cooldown.passed
     THEN /\ printed' = Line(userId, "You need to wait", isAdmin)
          /\ threads' = others
          /\ UNCHANGED <<cooldowns, sent>>
     ELSE /\ cooldowns' = IF isAdmin THEN cooldowns ELSE cooldown.cooldowns
          /\ \E found \in BOOLEAN :
               IF wellFormedCommand(args, found)
               THEN /\ printed' = Line(userId, "payload", isAdmin)
                    /\ sent' = Append(sent, [userId |-> userId, time |-> now, isAdmin |-> isAdmin])
                    /\ threads' = Append(others, [userId |-> userId, args |-> <<>>,
                                                   at |-> "RequestAsync", isAdmin |-> isAdmin])
               ELSE /\ printed' = Line(userId, "Usage", isAdmin)
                    /\ threads' = others
                    /\ UNCHANGED sent

\* the service's variables, which the game server script does not touch
service == <<workbook, calls, inbox, pc, payloads, fieldName, results, i, local, response,
             console, bookAt, faults, discord, req>>

\* os.time() moves on
Tick ==
  /\ \E d \in Delays : now + d <= MaxTime /\ now' = now + d
  /\ UNCHANGED <<service, cooldowns, threads, sent, printed, chats>>

\* player.Chatted: a player says an !activity command.  For the owner
\* canUseCommand returns at once; for any other player the thread yields in
\* GetGroupsAsync.
Chatted ==
  /\ chats < MaxCommands
  /\ chats' = chats + 1
  /\ \E userId \in UserIds, args \in Messages :
       /\ isActivityCommand(args)
       /\ IF userId = OWNER_ID
          THEN Process(threads, userId, args, canUseCommand(userId, [ok |-> FALSE, rank |-> 0]))
          ELSE /\ threads' = Append(threads, Thread(userId, args))
               /\ UNCHANGED <<cooldowns, sent, printed>>
  /\ UNCHANGED <<service, now>>

\* GetGroupsAsync returns (or fails) and the command goes on
GroupsReturned ==
  /\ \E k \in 1..Len(threads) :
       /\ threads[k].at = "GetGroupsAsync"
       /\ \E lookup \in GroupLookups :
            Process(Without(threads, k), threads[k].userId, threads[k].args,
                    canUseCommand(threads[k].userId, lookup))
  /\ UNCHANGED <<service, now, chats>>

\* RequestAsync returns (or fails): the outcome is printed and the thread ends
ResponseReturned ==
  /\ \E k \in 1..Len(threads) :
       /\ threads[k].at = "RequestAsync"
       /\ threads' = Without(threads, k)
       /\ \E ok \in BOOLEAN :
            printed' = Line(threads[k].userId,
                            IF ok THEN "Activity recorded!"
                            ELSE "Failed to connect to the activity tracking system.",
                            threads[k].isAdmin)
  /\ UNCHANGED <<service, now, cooldowns, sent, chats>>

GameNext ==
  \/ Tick
  \/ Chatted
  \/ GroupsReturned
  \/ ResponseReturned

\* the game server alone: no request reaches the service
InitGame ==
  /\ workbook = <<>>
  /\ inbox = [h \in Handlers |-> <<>>]
  /\ Idle

GameSpec == InitGame /\ [][GameNext]_vars

(***************************************************************************)
(* The per-update operation as one function: what the validation and       *)
(* findAndIncrementColumnValueAcrossSheets return for `update` when the    *)
(* workbook is `book` throughout and the k-th remote call it makes         *)
(* succeeds iff oks[k].  Only the fields of incrementResult are returned.  *)
(***************************************************************************)
RECURSIVE searchSheets(_, _, _, _)
searchSheets(book, upd, oks, k) ==
  LET sheetName == book[k].title
      read == IF oks[k + 1] THEN [ok |-> TRUE, values |-> book[k].values] ELSE [ok |-> FALSE]
      step == sheetIteration(findNameInSheet(read, upd.name, NAME_COLUMN), sheetName,
                             mappedFieldNameOf(upd.field), incrementOf(upd))
  IN IF step.kind = "write"
     THEN IF oks[k + 2] THEN step.result
          ELSE updateFailedResult(mappedFieldNameOf(upd.field), upd.name, sheetName)
     ELSE IF step.kind = "throw" THEN caughtResult(step.value)
     ELSE IF k < Len(book) THEN searchSheets(book, upd, oks, k + 1)
     ELSE notFoundResult(upd.name)

applyOne(book, upd, oks) ==
  IF Falsy(upd.name) \/ Falsy(upd.department) \/ Falsy(upd.field)
  THEN [success |-> FALSE, message |-> <<"Missing required fields (name, department, or field)">>]
  ELSE IF Falsy(Lookup(departmentToSpreadsheetId, upd.department))
  THEN [success |-> FALSE, message |-> <<"Unknown department: ", upd.department>>]
  ELSE IF ~oks[1] \/ Len(book) = 0 THEN noSheetsResult
  ELSE searchSheets(book, upd, oks, 1)

(***************************************************************************)
(* Vocabulary of the properties.                                           *)
(***************************************************************************)
EchoFields == {"name", "department", "field", "increment"}

\* a result without the fields the handler adds to incrementResult
UpdateResultOf(r) == [f \in DOMAIN r \ EchoFields |-> r[f]]

CallsOf(h, k) == SelectSeq(calls, LAMBDA c : c.handler = h /\ c.update = k)

OksOf(h, k) == LET made == CallsOf(h, k) IN [n \in 1..Len(made) |-> made[n].ok]

\* no call on the remote API made for request k of h failed
AllCallsOk(h, k) == LET made == CallsOf(h, k) IN \A n \in 1..Len(made) : made[n].ok

LogsOf(h, k) == SelectSeq(console, LAMBDA e : e.handler = h /\ e.update = k)

\* the batch of h was answered: res.json({ success: true, results })
Answered(h) ==
  /\ pc[h] = "done"
  /\ response[h].status = 200
  /\ "results" \in DOMAIN response[h].body

\* C1: the results array of a batch has the length of payloads, and its i-th
\* element is the outcome of the i-th payload: what the per-update operation
\* gives for that payload on the workbook as that update found it.
C1_OrderPreserved ==
  \A h \in Handlers :
    /\ Len(results[h]) <= Len(payloads[h])
    /\ \A k \in 1..Len(results[h]) :
         /\ UpdateResultOf(results[h][k]) = applyOne(bookAt[h][k], payloads[h][k], OksOf(h, k))
         /\ results[h][k].name = Or(payloads[h][k].name, "unknown")
         /\ results[h][k].department = Or(payloads[h][k].department, "unknown")
    /\ Answered(h) =>
         /\ response[h].body.results = results[h]
         /\ Len(response[h].body.results) = Len(payloads[h])

\* a batch of two was answered with a failure and a success, in input order
C1_Witness ==
  \E h \in Handlers :
    /\ Answered(h)
    /\ Len(payloads[h]) = 2
    /\ ~response[h].body.results[1].success
    /\ response[h].body.results[2].success
    /\ payloads[h][1].name # payloads[h][2].name

\* Request k of h ended in a failure after a non-numeric cell or a failed
\* remote call.
FailedRemotely(h, k) ==
  /\ k <= Len(results[h])
  /\ ~results[h][k].success
  /\ \/ \E n \in 1..Len(CallsOf(h, k)) : ~CallsOf(h, k)[n].ok
     \/ \E n \in 1..Len(LogsOf(h, k)) : LogsOf(h, k)[n].line = "NaN"

CellText(book, sheetName, row, column) ==
  LET values == valuesOf(book, sheetName) IN
  IF row <= Len(values) /\ column <= Len(values[row]) THEN values[row][column] ELSE null

CellNumber(book, sheetName, row, column) ==
  LET text == CellText(book, sheetName, row, column) IN
  IF text = null \/ text = "" THEN 0 ELSE Number(text)

SameCell(r1, r2) ==
  r1.sheetName = r2.sheetName /\ r1.row = r2.row /\ r1.column = r2.column

\* the sum of the amounts of the successful results among the first n of h
\* that resolved to the cell of result r
RECURSIVE SumOnCell(_, _, _)
SumOnCell(h, r, n) ==
  IF n = 0 THEN 0
  ELSE SumOnCell(h, r, n - 1)
       + (IF results[h][n].success /\ SameCell(results[h][n], r)
          THEN results[h][n].increment ELSE 0)

\* C3: within one batch a later request on the same cell sees the earlier
\* write: its previousValue is the newValue of the previous successful request
\* on that cell, and after the successful requests on a cell the cell holds its
\* initial value plus the sum of their amounts.
C3_FreshRead ==
  \A h \in Handlers : \A k \in 1..Len(results[h]) :
    results[h][k].success =>
      /\ \A j \in 1..(k - 1) :
           ( /\ results[h][j].success
             /\ SameCell(results[h][j], results[h][k])
             /\ \A m \in (j + 1)..(k - 1) :
                  ~(results[h][m].success /\ SameCell(results[h][m], results[h][k])) )
           => results[h][k].previousValue = results[h][j].newValue
      /\ LET r == results[h][k] IN
           CellNumber(workbook, r.sheetName, r.row, r.column)
             = CellNumber(bookAt[h][1], r.sheetName, r.row, r.column)
               + SumOnCell(h, r, Len(results[h]))

\* two requests of one batch incremented the same cell, 7 -> 10 -> 11
C3_Witness ==
  \E h \in Handlers :
    /\ Len(results[h]) = 2
    /\ results[h][1].success /\ results[h][2].success
    /\ SameCell(results[h][1], results[h][2])
    /\ results[h][1].previousValue = 7
    /\ results[h][1].newValue = 10
    /\ results[h][2].previousValue = 10
    /\ CellText(workbook, results[h][2].sheetName, results[h][2].row, results[h][2].column) = "11"

\* the result a step of handler h pushes
Pushed(h) == results[h]'[Len(results[h]')]

\* C4: every successful result has newValue = previousValue + amount, where
\* previousValue is the numeric value of the resolved cell as read (0 when the
\* cell is empty or missing from a short row), and the text of newValue is
\* what the cell holds after the write.
C4_IncrementArithmetic ==
  [][\A h \in Handlers :
       (Len(results[h]') = Len(results[h]) + 1 /\ Pushed(h).success) =>
         LET r == Pushed(h) IN
           /\ r.increment = incrementOf(payloads[h][i[h]])
           /\ r.previousValue = CellNumber(workbook, r.sheetName, r.row, r.column)
           /\ r.newValue = r.previousValue + r.increment
           /\ CellText(workbook', r.sheetName, r.row, r.column) = toString(r.newValue)]_vars

\* one batch holds both examples: "7" with amount 3 gives 7 and 10, an empty
\* cell with amount 5 gives 0 and 5
C4_Witness ==
  \E h \in Handlers :
    /\ Len(results[h]) = 2
    /\ results[h][1].success /\ results[h][2].success
    /\ results[h][1].increment = 3
    /\ results[h][1].previousValue = 7 /\ results[h][1].newValue = 10
    /\ results[h][2].increment = 5
    /\ results[h][2].previousValue = 0 /\ results[h][2].newValue = 5
    /\ CellText(bookAt[h][1], results[h][2].sheetName, results[h][2].row, results[h][2].column) = ""
    /\ CellText(workbook, results[h][1].sheetName, results[h][1].row, results[h][1].column) = "10"
    /\ CellText(workbook, results[h][2].sheetName, results[h][2].row, results[h][2].column) = "5"

\* the text of a message: its parts put together
RECURSIVE Join(_)
Join(parts) == IF Len(parts) = 0 THEN "" ELSE Head(parts) \o Join(Tail(parts))

Contains(text, piece) ==
  \E k \in 1..(Len(text) - Len(piece) + 1) : SubSeq(text, k, k + Len(piece) - 1) = piece

\* the non-numeric cell texts the sheet loop met while serving request k of h
NonNumericSeen(h, k) ==
  { LogsOf(h, k)[n].value : n \in { m \in 1..Len(LogsOf(h, k)) : LogsOf(h, k)[m].line = "NaN" } }

\* C5: when the cell resolved for a request (matching name row, resolvable
\* field column) holds non-numeric text, the request's result has
\* success=false and its message contains that text.
C5_NonNumericReported ==
  \A h \in Handlers : \A k \in 1..Len(results[h]) :
    \A text \in NonNumericSeen(h, k) :
      /\ ~results[h][k].success
      /\ "message" \in DOMAIN results[h][k]
      /\ Contains(Join(results[h][k].message), text)

\* C6: when the cell resolved for a request holds non-numeric text, the
\* request is aborted: it issues no write, and the workbook stays as the
\* request found it.
C6_NonNumericAborts ==
  \A h \in Handlers : \A k \in 1..Len(bookAt[h]) :
    NonNumericSeen(h, k) # {} =>
      /\ \A n \in 1..Len(CallsOf(h, k)) : CallsOf(h, k)[n].op # "values.update"
      /\ (k = Len(bookAt[h])) => workbook = bookAt[h][k]

\* request `upd` passes the checks made before the first remote call, with a
\* department that is a key of the mapping
WellFormed(upd) ==
  /\ ~Falsy(upd.name) /\ ~Falsy(upd.department) /\ ~Falsy(upd.field)
  /\ upd.department \in DOMAIN departmentToSpreadsheetId

\* the grid has a row matching the name of `upd` and a header matching its field
HasBoth(values, upd) ==
  LET userResult == findNameInSheet([ok |-> TRUE, values |-> values], upd.name, NAME_COLUMN)
  IN /\ userResult.found
     /\ fieldColumnIndexOf(userResult.allData[1], mappedFieldNameOf(upd.field)) # -1

FirstHit(book, upd) ==
  CHOOSE k \in 1..Len(book) :
    /\ HasBoth(book[k].values, upd)
    /\ \A q \in 1..(k - 1) : ~HasBoth(book[q].values, upd)

ReadsOf(h, k) == SelectSeq(CallsOf(h, k), LAMBDA c : c.op = "values.get")

\* C7: when no remote call of a request fails, the sheets are read in the
\* order of the listing up to the first sheet that has both a row matching
\* the name and a resolvable field column; the write goes to that sheet, the
\* result names it, and no later sheet is read or written.
C7_StopsAtFirstHit ==
  \A h \in Handlers : \A k \in 1..Len(bookAt[h]) :
    LET book == bookAt[h][k]
        upd == payloads[h][k]
        first == FirstHit(book, upd)
    IN ( /\ WellFormed(upd)
         /\ AllCallsOk(h, k)
         /\ \E q \in 1..Len(book) : HasBoth(book[q].values, upd) )
       =>
       /\ Len(ReadsOf(h, k)) <= first
       /\ \A n \in 1..Len(ReadsOf(h, k)) : ReadsOf(h, k)[n].target = book[n].title \o "!A:Z"
       /\ \A n \in 1..Len(CallsOf(h, k)) :
            CallsOf(h, k)[n].op = "values.update"
              => parseA1(CallsOf(h, k)[n].target).title = book[first].title
       /\ k <= Len(results[h]) =>
            /\ Len(ReadsOf(h, k)) = first
            /\ results[h][k].success => results[h][k].sheetName = book[first].title

\* C8: a request that misses name, department or field, or whose department
\* is not a key of the department mapping, gets a success=false result and
\* causes no call on the remote API.
C8_RejectedWithoutCalls ==
  \A h \in Handlers : \A k \in 1..Len(payloads[h]) :
    ~WellFormed(payloads[h][k]) =>
      /\ CallsOf(h, k) = <<>>
      /\ k <= Len(results[h]) => ~results[h][k].success

\* the key two names are compared by: lowercased, surrounding blanks removed
NameKey(name) == trim(toLowerCase(name))

QueryNames == {"bob", "BOB ", " Bob", "bOB\t", "amy", " AMY ", "Amy", "bo b"}

\* the rows of the grid whose name cell has the key of `name`
RowsWithKey(values, name) ==
  LET c == nameColumnIndexOf(values[1], NAME_COLUMN) + 1 IN
  { r \in 2..Len(values) :
      /\ c >= 1 /\ c <= Len(values[r])
      /\ values[r][c] # ""
      /\ NameKey(values[r][c]) = NameKey(name) }

\* C9: row matching is case-insensitive and ignores surrounding blanks on the
\* query name and on the cell: on the sheet a request is about to search, its
\* name is found exactly when some row's name cell has its key, the row found
\* has that key, and every query name with the same key resolves to the same
\* row of that sheet.
C9_NameKeyMatching ==
  \A h \in Handlers :
    pc[h] = "findNameInSheet" =>
      LET values == valuesOf(workbook, local[h].sheetNames[local[h].s])
          read == [ok |-> TRUE, values |-> values]
          found == findNameInSheet(read, local[h].name, local[h].nameColumn)
      IN Len(values) > 0 =>
           /\ found.found <=> RowsWithKey(values, local[h].name) # {}
           /\ found.found => found.row \in RowsWithKey(values, local[h].name)
           /\ \A other \in QueryNames :
                NameKey(other) = NameKey(local[h].name)
                  => findNameInSheet(read, other, local[h].nameColumn) = found

\* the requests "bob" and "BOB " of one batch resolved to the same row
C9_Witness ==
  \E h \in Handlers :
    /\ Len(results[h]) = 2
    /\ results[h][1].success /\ results[h][2].success
    /\ payloads[h][1].name = "bob" /\ payloads[h][2].name = "BOB "
    /\ results[h][1].row = results[h][2].row
    /\ results[h][1].sheetName = results[h][2].sheetName
    /\ RowsWithKey(valuesOf(workbook, results[h][1].sheetName), "Bob") = {results[h][1].row}

\* C10: when several rows of a sheet match the name the lowest one wins: a
\* successful result names the first row of its sheet whose name cell matches,
\* its previousValue is read from that row, and the write changes the field
\* cell of that row and nothing else in the workbook.
C10_FirstMatchWins ==
  [][\A h \in Handlers :
       (Len(results[h]') = Len(results[h]) + 1 /\ Pushed(h).success) =>
         LET r == Pushed(h)
             matching == RowsWithKey(valuesOf(workbook, r.sheetName), payloads[h][i[h]].name)
         IN /\ r.row \in matching
            /\ \A q \in matching : r.row <= q
            /\ r.previousValue = CellNumber(workbook, r.sheetName, r.row, r.column)
            /\ Len(workbook') = Len(workbook)
            /\ \A k \in 1..Len(workbook) :
                 /\ workbook'[k].title = workbook[k].title
                 /\ Len(workbook'[k].values) = Len(workbook[k].values)
                 /\ \A q \in 1..Len(workbook[k].values) :
                      IF workbook[k].title = r.sheetName /\ q = r.row
                      THEN \A c \in 1..Len(workbook[k].values[q]) :
                             c # r.column => workbook'[k].values[q][c] = workbook[k].values[q][c]
                      ELSE workbook'[k].values[q] = workbook[k].values[q]]_vars

\* rows 2 and 3 both match the name; row 2 was incremented, row 3 is as it was
C10_Witness ==
  \E h \in Handlers :
    /\ Len(results[h]) = 1
    /\ results[h][1].success
    /\ results[h][1].row = 2
    /\ LET r == results[h][1] IN
         /\ RowsWithKey(valuesOf(workbook, r.sheetName), payloads[h][1].name) = {2, 3}
         /\ CellText(workbook, r.sheetName, 2, r.column) = toString(r.newValue)
         /\ CellText(workbook, r.sheetName, 3, r.column)
              = CellText(bookAt[h][1], r.sheetName, 3, r.column)
         /\ CellText(workbook, r.sheetName, 3, r.column) # toString(r.newValue)

\* the name of `upd` matches a row of the grid
NameMatches(values, upd) ==
  findNameInSheet([ok |-> TRUE, values |-> values], upd.name, NAME_COLUMN).found

\* the workbook with every data row removed: no name matches anywhere
HeadersOnly(book) ==
  [k \in 1..Len(book) |->
     Sheet(book[k].title, IF Len(book[k].values) = 0 THEN <<>> ELSE << book[k].values[1] >>)]

AllOk(n) == [k \in 1..n |-> TRUE]

\* the name of `upd` matches in some sheet of the workbook, and no sheet where
\* it matches has a column for the field
FieldNeverResolvable(book, upd) ==
  /\ \E k \in 1..Len(book) : NameMatches(book[k].values, upd)
  /\ \A k \in 1..Len(book) : ~HasBoth(book[k].values, upd)

\* C11: when the search exhausts the sheets, the failure of a request whose
\* name matched somewhere but whose field column was resolvable in no such
\* sheet differs from the failure the same request gets when its name
\* matches no row of any sheet.
C11_NotFoundKindsDistinguished ==
  \A h \in Handlers : \A k \in 1..Len(results[h]) :
    LET book == bookAt[h][k]
        upd == payloads[h][k]
    IN ( /\ WellFormed(upd)
         /\ isString(upd.field)
         /\ AllCallsOk(h, k)
         /\ FieldNeverResolvable(book, upd) )
       => UpdateResultOf(results[h][k]) # applyOne(HeadersOnly(book), upd, AllOk(Len(book) + 2))

\* a call on the remote API made for request k of h failed
RemoteFailure(h, k) == ~AllCallsOk(h, k)

\* C12: a request for which a call on the remote API failed (the listing, a
\* read or the write) gets a success=false result, and the batch is still
\* answered with one result per request.
C12_RemoteFailureFails ==
  \A h \in Handlers :
    /\ \A k \in 1..Len(results[h]) : RemoteFailure(h, k) => ~results[h][k].success
    /\ (pc[h] = "done" /\ \E k \in 1..Len(payloads[h]) : RemoteFailure(h, k)) =>
          /\ Answered(h)
          /\ Len(response[h].body.results) = Len(payloads[h])

\* C13: every result with success=false has a message field, and the message
\* is not empty.
C13_FailureHasMessage ==
  \A h \in Handlers : \A k \in 1..Len(results[h]) :
    ~results[h][k].success =>
      /\ "message" \in DOMAIN results[h][k]
      /\ Join(results[h][k].message) # ""

\* the token a request presents: its Bearer token, else its api_token query
\* parameter, else none
BearerToken(request) ==
  IF request.authorization # undefined /\ startsWith(request.authorization, "Bearer ")
  THEN SubSeq(request.authorization, 8, Len(request.authorization))
  ELSE ""

Presented(request) ==
  IF BearerToken(request) # "" THEN BearerToken(request)
  ELSE IF request.api_token \notin {undefined, ""} THEN request.api_token
  ELSE ""

\* nothing of the update handler has run for h (a sheet changes only through
\* a values.update call, which the log of calls records)
HandlerNeverRan(h) ==
  /\ payloads[h] = <<>> /\ results[h] = <<>> /\ bookAt[h] = <<>>
  /\ \A n \in 1..Len(calls) : calls[n].handler # h
  /\ \A n \in 1..Len(discord) : discord[n].handler # h

\* C14: GET / is answered without a token; any other request that presents
\* no token is answered 401, one that presents a token other than API_TOKEN
\* is answered 403, and in both cases the update handler never runs: no
\* notification, no call on the remote API, no sheet change.
C14_TokenRequired ==
  \A h \in Handlers :
    req[h] # noRequest =>
      IF req[h].method = "GET" /\ req[h].path = "/"
      THEN response[h].status = 200 /\ HandlerNeverRan(h)
      ELSE /\ Presented(req[h]) = "" => response[h].status = 401
           /\ Presented(req[h]) \notin {"", API_TOKEN} => response[h].status = 403
           /\ Presented(req[h]) # API_TOKEN => pc[h] = "done" /\ HandlerNeverRan(h)

\* a POST /update-fields with a wrong Bearer token and the right api_token
\* was answered 403
C14_Witness ==
  \E h \in Handlers :
    /\ req[h] # noRequest
    /\ req[h].method = "POST" /\ req[h].path = "/update-fields"
    /\ req[h].authorization = "Bearer guess"
    /\ req[h].api_token = API_TOKEN
    /\ response[h].status = 403
    /\ pc[h] = "done"

\* C15: result k echoes the name, the department and the field (after alias
\* mapping) of request k itself, in successes and failures alike; a value the
\* request does not have may be echoed by a placeholder.
C15_EchoesOwnFields ==
  \A h \in Handlers : \A k \in 1..Len(results[h]) :
    LET upd == payloads[h][k]
        r == results[h][k]
    IN /\ ~Falsy(upd.name) => r.name = upd.name
       /\ ~Falsy(upd.department) => r.department = upd.department
       /\ ~Falsy(upd.field) =>
            r.field = (IF upd.field \in DOMAIN fieldMappings THEN fieldMappings[upd.field]
                       ELSE upd.field)

\* the text of the field cell of the row of `upd` in the grid, null when the
\* row is too short
ResolvedCell(values, upd) ==
  LET userResult == findNameInSheet([ok |-> TRUE, values |-> values], upd.name, NAME_COLUMN)
  IN cellValueOf(userResult.rowData,
                 fieldColumnIndexOf(values[1], mappedFieldNameOf(upd.field)))

\* the sheets of the workbook with both a row for the name and a column for
\* the field
Hits(book, upd) == { f \in 1..Len(book) : HasBoth(book[f].values, upd) }

\* a sheet before `first` has a row for the name (and so no column for the
\* field, `first` being the first sheet with both), and the cell resolved in
\* `first` is empty or a number
ColumnMissingBefore(book, upd, first) ==
  /\ \E q \in 1..(first - 1) : NameMatches(book[q].values, upd)
  /\ LET cell == ResolvedCell(book[first].values, upd)
     IN cell = null \/ ~isNaNNumber(cell)

\* C16: a sheet with a row matching the name but no column matching the
\* field does not fail the request: when a later sheet is the first with both
\* and no remote call fails, the request succeeds on that later sheet.
C16_ColumnMissContinues ==
  \A h \in Handlers : \A k \in 1..Len(results[h]) :
    LET book == bookAt[h][k]
        upd == payloads[h][k]
        hits == Hits(book, upd)
        first == CHOOSE f \in hits : \A g \in hits : f <= g
    IN ( /\ Len(book) > 1
         /\ WellFormed(upd)
         /\ isString(upd.field)
         /\ AllCallsOk(h, k)
         /\ hits # {}
         /\ ColumnMissingBefore(book, upd, first) )
       => /\ results[h][k].success
          /\ results[h][k].sheetName = book[first].title

\* sheet A has bob without the field column, sheet B has both: B!B2 went 7 -> 10
C16_Witness ==
  \E h \in Handlers :
    /\ Len(results[h]) = 1
    /\ Hits(bookAt[h][1], payloads[h][1]) = {2}
    /\ ColumnMissingBefore(bookAt[h][1], payloads[h][1], 2)
    /\ \E n \in 1..Len(LogsOf(h, 1)) :
         LogsOf(h, 1)[n].line = "column" /\ LogsOf(h, 1)[n].sheetName = "A"
    /\ results[h][1].success
    /\ results[h][1].sheetName = "B"
    /\ CellText(workbook, "B", 2, 2) = "10"

\* a column specifier that is one ASCII letter, and the zero-based position
\* of that letter
IsLetter(spec) == Len(spec) = 1 /\ IndexIn(UpperChars, UpperChar(spec)) > 0

LetterPosition(spec) == IndexIn(UpperChars, UpperChar(spec)) - 1

\* C17: a column specifier that is a single ASCII letter resolves to the
\* position of the letter whatever the header row holds.  For the name column:
\* on every sheet, "A" and "b" resolve to 0 and 1.  For the field column: a
\* request whose field is a letter, whose name matches in the first sheet and
\* whose cell in that column is empty or a number, succeeds there on that
\* column.
C17_LetterIsPosition ==
  /\ \A k \in 1..Len(workbook) : \A letter \in {"A", "b"} :
       Len(workbook[k].values) > 0 =>
         nameColumnIndexOf(workbook[k].values[1], letter) = LetterPosition(letter)
  /\ \A h \in Handlers : \A k \in 1..Len(results[h]) :
       LET book == bookAt[h][k]
           upd == payloads[h][k]
           spec == mappedFieldNameOf(upd.field)
       IN ( /\ WellFormed(upd)
            /\ isString(upd.field)
            /\ IsLetter(spec)
            /\ AllCallsOk(h, k)
            /\ Len(book) > 0
            /\ NameMatches(book[1].values, upd)
            /\ LET userResult == findNameInSheet([ok |-> TRUE, values |-> book[1].values],
                                                 upd.name, NAME_COLUMN)
                   cell == cellValueOf(userResult.rowData, LetterPosition(spec))
               IN cell = null \/ ~isNaNNumber(cell) )
          => /\ results[h][k].success
             /\ results[h][k].sheetName = book[1].title
             /\ results[h][k].column = LetterPosition(spec) + 1

\* the zero-based index of the leftmost header cell whose trimmed, lowercased
\* text is the trimmed, lowercased specifier; -1 when there is none
LeftmostHeader(headerRow, spec) ==
  LET hits == { c \in 1..Len(headerRow) : NameKey(headerRow[c]) = NameKey(spec) }
  IN IF hits = {} THEN -1
     ELSE (CHOOSE c \in hits : \A d \in hits : c <= d) - 1

\* C18: a header-name specifier resolves to the leftmost header cell equal to
\* it after trimming and lowercasing, and to not-found (-1) when there is
\* none: on the sheet a request is about to search, this holds for the name
\* column and for the field column of the request.
C18_HeaderIsLeftmostMatch ==
  \A h \in Handlers :
    pc[h] = "findNameInSheet" =>
      LET values == valuesOf(workbook, local[h].sheetNames[local[h].s]) IN
      Len(values) > 0 =>
        /\ Len(local[h].nameColumn) > 1 =>
             nameColumnIndexOf(values[1], local[h].nameColumn)
               = LeftmostHeader(values[1], local[h].nameColumn)
        /\ (isString(local[h].columnName) /\ Len(local[h].columnName) > 1) =>
             fieldColumnIndexOf(values[1], local[h].columnName)
               = LeftmostHeader(values[1], local[h].columnName)

WritesOf(h, k) == SelectSeq(CallsOf(h, k), LAMBDA c : c.op = "values.update")

\* C19: in a successful result row is the sheet row of a data row whose name
\* cell has the key of the request's name (the header is row 1, the first data
\* row is row 2), column is the 1-indexed number of the field column,
\* columnLetter is the letter of that column, and the request made exactly one
\* write, addressed sheetName!<columnLetter><row>.
C19_ResultAddressesCell ==
  \A h \in Handlers : \A k \in 1..Len(results[h]) :
    results[h][k].success =>
      LET r == results[h][k]
          upd == payloads[h][k]
          values == valuesOf(bookAt[h][k], r.sheetName)
      IN /\ r.row >= 2
         /\ r.row \in RowsWithKey(values, upd.name)
         /\ r.column = LeftmostHeader(values[1], r.field) + 1
         /\ r.column >= 1
         /\ r.columnLetter = charAt(UpperChars, r.column)
         /\ Len(WritesOf(h, k)) = 1
         /\ WritesOf(h, k)[1].target = r.sheetName \o "!" \o r.columnLetter \o toString(r.row)

\* bob is in the second data row: the result says row 3, column 2, letter B,
\* and the write went to A!B3
C19_Witness ==
  \E h \in Handlers :
    /\ Len(results[h]) = 1
    /\ results[h][1].success
    /\ results[h][1].row = 3
    /\ results[h][1].column = 2
    /\ results[h][1].columnLetter = "B"
    /\ Len(WritesOf(h, 1)) = 1
    /\ WritesOf(h, 1)[1].target = "A!B3"
    /\ CellText(bookAt[h][1], "A", 3, 1) = payloads[h][1].name

\* C20: within a batch the requests are served in input order, one at a
\* time: a call on the remote API is made for the request that follows the
\* ones already answered with a result, and no call made before it belongs to
\* a later request.
C20_OneAtATime ==
  [][\A h \in Handlers :
       (Len(calls') = Len(calls) + 1 /\ calls'[Len(calls')].handler = h) =>
         LET call == calls'[Len(calls')] IN
           /\ call.update = Len(results[h]) + 1
           /\ call.update <= Len(payloads[h])
           /\ \A n \in 1..Len(calls) :
                calls[n].handler = h => calls[n].update <= call.update]_vars

\* the calls of a batch of two: all those of request 1, then those of request 2
C20_Witness ==
  \E h \in Handlers :
    /\ Len(payloads[h]) = 2
    /\ Len(results[h]) = 2
    /\ Len(CallsOf(h, 1)) >= 3
    /\ Len(CallsOf(h, 2)) >= 3
    /\ calls = CallsOf(h, 1) \o CallsOf(h, 2)

\* the workbook as request k of h left it: as the next request of the batch
\* found it, or as it is now
BookAfter(h, k) == IF k < Len(bookAt[h]) THEN bookAt[h][k + 1] ELSE workbook

\* the cells of a workbook, and the cells whose text differs between two
\* workbooks
CellsOf(book) ==
  UNION { UNION { { <<book[s].title, row, column>> : column \in 1..Len(book[s].values[row]) } :
                    row \in 1..Len(book[s].values) } : s \in 1..Len(book) }

ChangedCells(before, after) ==
  { c \in CellsOf(before) \cup CellsOf(after) :
      CellText(before, c[1], c[2], c[3]) # CellText(after, c[1], c[2], c[3]) }

\* C21: a request makes at most one write on the remote API and does not
\* retry it.  A successful request made one write, which succeeded, and the
\* workbook it leaves differs from the one it found in the resolved cell and
\* nowhere else; a failed request leaves the workbook as it found it; a failed
\* write ends the request with a failure, no further call being made.
C21_SingleWrite ==
  \A h \in Handlers : \A k \in 1..Len(results[h]) :
    LET r == results[h][k]
        made == CallsOf(h, k)
        writes == WritesOf(h, k)
        before == bookAt[h][k]
        after == BookAfter(h, k)
    IN /\ Len(writes) <= 1
       /\ r.success =>
            /\ Len(writes) = 1
            /\ writes[1].ok
            /\ sheetTitles(after) = sheetTitles(before)
            /\ ChangedCells(before, after) = { <<r.sheetName, r.row, r.column>> }
       /\ ~r.success => after = before
       /\ (Len(writes) = 1 /\ ~writes[1].ok) =>
            /\ ~r.success
            /\ made[Len(made)] = writes[1]

\* the write on A!B2 failed while sheet B has the name and the column too: the
\* request failed, B was not read and the workbook is as before
C21_Witness ==
  \E h \in Handlers :
    /\ Len(results[h]) = 1
    /\ Len(bookAt[h][1]) = 2
    /\ Hits(bookAt[h][1], payloads[h][1]) = {1, 2}
    /\ Len(WritesOf(h, 1)) = 1
    /\ WritesOf(h, 1)[1].target = "A!B2"
    /\ ~WritesOf(h, 1)[1].ok
    /\ Len(ReadsOf(h, 1)) = 1
    /\ ~results[h][1].success
    /\ workbook = bookAt[h][1]

\* a POST /update-fields that passed the token check
AuthenticatedPost(request) ==
  /\ request.method = "POST"
  /\ request.path = "/update-fields"
  /\ verifyApiToken(request) = 0

\* an exception is thrown while the request is processed: a payloads element
\* is null
ThrowsWhileProcessing(request) ==
  /\ isArray(request)
  /\ \E k \in 1..Len(request.payloads) : isNullPayload(request.payloads[k])

\* the status the request is to be answered with
StatusFor(request) ==
  IF ~isArray(request) \/ Len(request.payloads) = 0 THEN 400
  ELSE IF ThrowsWhileProcessing(request) THEN 500
  ELSE 200

\* C22: every authenticated POST /update-fields is eventually answered, once:
\* with 400 when payloads is not a non-empty array, with 200 and the results
\* when the loop completes, with 500 and success=false when an exception is
\* thrown while processing.
C22_AlwaysAnswered ==
  /\ [][\A h \in Handlers : response[h].status # 0 => response'[h] = response[h]]_vars
  /\ \A h \in Handlers :
    /\ [](AuthenticatedPost(req[h]) ~> response[h].status # 0)
    /\ []((AuthenticatedPost(req[h]) /\ response[h].status # 0) =>
            /\ response[h].status = StatusFor(req[h])
            /\ response[h].status = 200 =>
                 /\ "results" \in DOMAIN response[h].body
                 /\ Len(response[h].body.results) = Len(req[h].payloads)
            /\ response[h].status = 500 =>
                 /\ "success" \in DOMAIN response[h].body
                 /\ response[h].body.success = FALSE)

\* the sum of the amounts of the successful results of every handler that
\* resolved to the cell of result r
RECURSIVE SumOfAll(_, _)
SumOfAll(hs, r) ==
  IF hs = {} THEN 0
  ELSE LET h == CHOOSE x \in hs : TRUE
       IN SumOnCell(h, r, Len(results[h])) + SumOfAll(hs \ {h}, r)

\* C23: no update is lost across batches.  When the batches handled at the
\* same time have all been answered and two of them have a successful result
\* on the same cell, the cell holds its initial value plus the sum of the
\* amounts of all the successful results on it.
C23_NoLostUpdate ==
  (\A h \in Handlers : Answered(h)) =>
    \A h1, h2 \in Handlers : \A k1 \in 1..Len(results[h1]) : \A k2 \in 1..Len(results[h2]) :
      ( /\ h1 # h2
        /\ results[h1][k1].success
        /\ results[h2][k2].success
        /\ SameCell(results[h1][k1], results[h2][k2]) )
      => LET r == results[h1][k1] IN
           CellNumber(workbook, r.sheetName, r.row, r.column)
             = CellNumber(ConcurrentWorkbook, r.sheetName, r.row, r.column)
               + SumOfAll(Handlers, r)

\* C24: the game-side cooldown.  Two requests sent for commands of the same
\* player, both run below admin rank, are at least 1800 seconds apart; a
\* command rejected by the cooldown sends no request and leaves the player's
\* cooldown as it was; a command run at admin rank is not rejected by the
\* cooldown and leaves every cooldown as it was.
C24_Cooldown ==
  [][ /\ \A a, b \in 1..Len(sent') :
           ( /\ a < b
             /\ sent'[a].userId = sent'[b].userId
             /\ ~sent'[a].isAdmin
             /\ ~sent'[b].isAdmin )
           => sent'[b].time - sent'[a].time >= 1800
      /\ printed'.line = "You need to wait" =>
           /\ sent' = sent
           /\ cooldowns' = cooldowns
           /\ ~printed'.isAdmin
      /\ printed'.isAdmin => cooldowns' = cooldowns
    ]_vars

\* a player below admin rank sent two requests exactly 1800 seconds apart,
\* and a third command of theirs was then rejected: the cooldown still runs
\* from the second request
C24_Witness ==
  /\ Len(sent) = 2
  /\ sent[1].userId = sent[2].userId
  /\ ~sent[1].isAdmin /\ ~sent[2].isAdmin
  /\ sent[2].time - sent[1].time = 1800
  /\ printed = Line(sent[2].userId, "You need to wait", FALSE)
  /\ cooldowns[sent[2].userId] = sent[2].time
  /\ chats = 3

====
